---- MODULE Spec2Model ----
(***************************************************************************)
(* Model of dali/util/nvml_wrap.cc: the run-time binding of libnvidia-ml.   *)
(*                                                                         *)
(* wrapSymbols() opens the library, resolves every entry point with dlsym   *)
(* into a file-static function pointer and sets symbolsLoaded; each        *)
(* wrapNvml*() forwards to its pointer through FUNC_BODY.  The file holds   *)
(* no lock and no atomic: every read and write of symbolsLoaded, of the     *)
(* static nvmlhandle and of the function pointers is a separate step that   *)
(* other threads' steps may interleave with.                               *)
(*                                                                         *)
(* A call in progress is a frame: the function, its position and its       *)
(* locals.  The frames of all threads form a bag; which thread runs which   *)
(* frame changes nothing, only how many calls can be in progress at once.   *)
(*                                                                         *)
(* DALI_FAIL leaves the function by raising its message; the caller may     *)
(* catch it, so the thread goes on with result DALIError.                   *)
(***************************************************************************)
EXTENDS Integers, Sequences, FiniteSets, Bags, TLC

\* ------------------------------------------------------------------ bounds
NumThreads == 2      \* threads of the process that call into the file
MaxCalls   == 2      \* calls (wrapSymbols or wrappers) started in one run

\* --------------------------------------------------------------- constants
\* the null pointer; a handle is << library >>, an entry point's address is
\* << library, symbol >>
NULL == << >>

\* #if (CUDART_VERSION >= 11000)
CUDA11 == 11000

\* builds and installed drivers considered: CUDA 10.2 and CUDA 11.0
CudartVersions == {10020, CUDA11}
DriverVersions == {10020, CUDA11}

\* the two names wrapSymbols hands to dlopen, in the order it tries them
LibPrimary  == "libnvidia-ml.so"
LibFallback == "libnvidia-ml.so.1"
LibNames    == {LibPrimary, LibFallback}

\* the entry points every build resolves, in the order of the LOAD_SYM lines
BaseSymbols ==
  << "nvmlInit", "nvmlShutdown", "nvmlDeviceGetHandleByPciBusId",
     "nvmlDeviceGetHandleByIndex", "nvmlDeviceGetIndex",
     "nvmlDeviceSetCpuAffinity", "nvmlDeviceClearCpuAffinity",
     "nvmlSystemGetDriverVersion", "nvmlDeviceGetCpuAffinity",
     "nvmlErrorString" >>

\* the entry points only a CUDA 11 build declares and resolves
Cuda11Symbols ==
  << "nvmlDeviceGetCpuAffinityWithinScope", "nvmlDeviceGetBrand",
     "nvmlDeviceGetCount_v2", "nvmlDeviceGetHandleByIndex_v2",
     "nvmlDeviceGetCudaComputeCapability" >>

Range(s) == {s[i] : i \in 1..Len(s)}

Symbols == Range(BaseSymbols) \cup Range(Cuda11Symbols)

\* nvmlReturn_t values a native entry point may return
NVML_SUCCESS == "NVML_SUCCESS"
NativeCodes  == {NVML_SUCCESS, "NVML_ERROR_UNKNOWN"}

DALISuccess == "DALISuccess"
DALIError   == "DALIError"

VARIABLES
  \* the build and the machine; fixed for the life of the process
  cudart,          \* CUDART_VERSION the file was compiled with
  installed,       \* the library names dlopen can open
  exported,        \* the entry points dlsym has found in the library
  absent,          \* the entry points dlsym has found the library to lack
  \* the file's globals
  symbolsLoaded,   \* int symbolsLoaded
  nvmlhandle,      \* static void* nvmlhandle of wrapSymbols
  table,           \* the nvmlInternal* function pointers, by entry point
  \* the calls
  active,          \* bag of the frames of the calls in progress
  last,            \* the call that returned last, and what it returned
  \* what has happened so far
  calls,           \* calls started
  passes,          \* times wrapSymbols went past its symbolsLoaded test
  opens,           \* dlopen calls that returned a handle
  everLoaded,      \* some wrapSymbols call has returned DALISuccess
  everFailed,      \* some wrapSymbols call has left through DALI_FAIL
  overlap,         \* some call started while another was in progress
  nullCall,        \* a call was made through a null function pointer
  crashed          \* the process died

env     == << cudart, installed, exported, absent >>
globals == << symbolsLoaded, nvmlhandle, table >>
history == << calls, passes, opens, everLoaded, everFailed, overlap, nullCall,
              crashed >>
vars    == << env, globals, active, last, history >>

\* ------------------------------------------------------------ environment
\* dlopen(name, RTLD_NOW): the handle of the library, or NULL
dlopen(name) == IF name \in installed THEN << name >> ELSE NULL

\* The library's export list is fixed but arbitrary.  It is disclosed one
\* dlsym at a time: the first lookup of an entry point in the library decides
\* whether the library has it, and every later lookup agrees.
Discloses(handle, symbol, found) ==
  IF handle = NULL \/ symbol \in exported \cup absent
  THEN /\ found = (symbol \in exported)
       /\ UNCHANGED << exported, absent >>
  ELSE IF found
  THEN exported' = exported \cup {symbol} /\ UNCHANGED absent
  ELSE absent' = absent \cup {symbol} /\ UNCHANGED exported

\* dlsym(handle, symbol): the entry point's address, or NULL.  A null handle
\* is RTLD_DEFAULT: the library was opened RTLD_LOCAL, so the global scope
\* does not hold its symbols.
dlsym(handle, symbol, found) ==
  IF handle # NULL /\ found THEN handle \o << symbol >> ELSE NULL

\* const char* nvmlErrorString(nvmlReturn_t)
ErrorString(r) == << "nvmlErrorString", r >>

\* is_driver_sufficient, given what cudaDriverGetVersion stored in its local
\* driver_version.  No line of wrapSymbols calls it: LOAD_SYM_MIN_DRIVER, its
\* one user, is defined and never used.
is_driver_sufficient(driver_version, min_cuda_major, min_cuda_minor) ==
  driver_version >= 1000 * min_cuda_major + 10 * min_cuda_minor

\* ----------------------------------------------------------------- calls
\* a call in progress: the function, its position, and its locals (idx: the
\* statement of wrapSymbols it is at; tmp: void* tmp; ret: nvmlReturn_t ret)
Frame(o, p, i, x, r) == [op |-> o, pc |-> p, idx |-> i, tmp |-> x, ret |-> r]

\* a call that returned: the function, its return value, its diagnostic, the
\* native entry points it invoked, and whether it returned in its first step
Completed(o, r, d, n, f) ==
  [op |-> o, result |-> r, diag |-> d, invoked |-> n, fast |-> f]

NoCall == Completed("none", "none", << >>, 0, TRUE)

Running == BagToSet(active)

\* a call starts: a thread is free and the process is alive
CanCall == ~crashed /\ calls < MaxCalls /\ BagCardinality(active) < NumThreads

Enter ==
  /\ CanCall
  /\ calls' = calls + 1
  /\ overlap' = (overlap \/ active # EmptyBag)

Start(g)   == active' = active (+) SetToBag({g})
Finish(f)  == active' = active (-) SetToBag({f})
Step(f, g) == active' = (active (-) SetToBag({f})) (+) SetToBag({g})

\* f's thread is at position p
At(f, p) == f \in Running /\ f.pc = p /\ ~crashed

\* ------------------------------------------------------------ wrapSymbols
\* LoadList with the CUDA 11 block cut after its second line
LoadListPartialGroup ==
  IF cudart >= CUDA11 THEN BaseSymbols \o SubSeq(Cuda11Symbols, 1, 2)
                      ELSE BaseSymbols

\* the LOAD_SYM lines the build compiles, in order
LoadList ==
  IF cudart >= CUDA11 THEN BaseSymbols \o Cuda11Symbols ELSE BaseSymbols

LoadLines(list) == [i \in 1..Len(list) |-> << "LOAD_SYM", list[i] >>]

\* Body with symbolsLoaded = 1 placed before the CUDA 11 block
BodyFlagEarly ==
  LoadLines(BaseSymbols) \o << << "symbolsLoaded = 1" >> >>
    \o (IF cudart >= CUDA11 THEN LoadLines(Cuda11Symbols) ELSE << >>)

\* Body without the LOAD_SYM line of nvmlErrorString
BodyNoErrorString ==
  LoadLines(SubSeq(BaseSymbols, 1, Len(BaseSymbols) - 1)
              \o (IF cudart >= CUDA11 THEN Cuda11Symbols ELSE << >>))
    \o << << "symbolsLoaded = 1" >> >>

\* the statements of wrapSymbols after the library is open: the LOAD_SYM
\* lines, then symbolsLoaded = 1
Body == LoadLines(LoadList) \o << << "symbolsLoaded = 1" >> >>

\* the entry points that have a wrapper (nvmlErrorString has none)
WrapperNames == Symbols \ {"nvmlErrorString"}

\* the wrappers the build compiles
Wrappers ==
  IF cudart >= CUDA11 THEN WrapperNames
                      ELSE WrapperNames \ Range(Cuda11Symbols)

\* wrapSymbols without its test of symbolsLoaded
AlreadyLoadedIgnored == FALSE

\* if (symbolsLoaded)
AlreadyLoaded == symbolsLoaded # 0

\* DALI_FAIL(msg) in wrapSymbols
DALI_FAIL(f, msg) ==
  /\ Finish(f)
  /\ last' = Completed("wrapSymbols", DALIError, << "fail" >> \o msg, 0, FALSE)
  /\ everFailed' = TRUE

\* the library is open: go on to the first LOAD_SYM line
StartBody(f) == Step(f, [f EXCEPT !.pc = "stmt", !.idx = 1])

\* after the statement at f.idx: the next one, or return DALISuccess
NextStmt(f) ==
  IF f.idx < Len(Body)
  THEN /\ Step(f, [f EXCEPT !.pc = "stmt", !.idx = f.idx + 1, !.tmp = NULL])
       /\ UNCHANGED << last, everLoaded >>
  ELSE /\ Finish(f)
       /\ last' = Completed("wrapSymbols", DALISuccess, << >>, 0, FALSE)
       /\ everLoaded' = TRUE

\* wrapSymbols(): entry and the symbolsLoaded test
wrapSymbols ==
  /\ Enter
  /\ IF AlreadyLoaded
     THEN /\ last' = Completed("wrapSymbols", DALISuccess, << >>, 0, TRUE)
          /\ everLoaded' = TRUE
          /\ UNCHANGED << active, passes >>
     ELSE /\ Start(Frame("wrapSymbols", "open1", 0, NULL, "none"))
          /\ passes' = passes + 1
          /\ UNCHANGED << last, everLoaded >>
  /\ UNCHANGED << env, globals, opens, everFailed, nullCall, crashed >>

\* nvmlhandle = dlopen("libnvidia-ml.so", RTLD_NOW);
Open1 ==
  \E f \in Running :
    /\ At(f, "open1")
    /\ nvmlhandle' = dlopen(LibPrimary)
    /\ opens' = IF dlopen(LibPrimary) # NULL THEN opens + 1 ELSE opens
    /\ Step(f, [f EXCEPT !.pc = "test1"])
    /\ UNCHANGED << env, symbolsLoaded, table, last, calls, passes, everLoaded,
                    everFailed, overlap, nullCall, crashed >>

\* if (!nvmlhandle)
Test1 ==
  \E f \in Running :
    /\ At(f, "test1")
    /\ IF nvmlhandle = NULL
       THEN Step(f, [f EXCEPT !.pc = "open2"])
       ELSE StartBody(f)
    /\ UNCHANGED << env, globals, last, history >>

\* nvmlhandle = dlopen("libnvidia-ml.so.1", RTLD_NOW);
Open2 ==
  \E f \in Running :
    /\ At(f, "open2")
    /\ nvmlhandle' = dlopen(LibFallback)
    /\ opens' = IF dlopen(LibFallback) # NULL THEN opens + 1 ELSE opens
    /\ Step(f, [f EXCEPT !.pc = "test2"])
    /\ UNCHANGED << env, symbolsLoaded, table, last, calls, passes, everLoaded,
                    everFailed, overlap, nullCall, crashed >>

\* Test2 without its DALI_FAIL: a failed second dlopen goes on to LOAD_SYM
Test2NoFail ==
  \E f \in Running :
    /\ At(f, "test2")
    /\ StartBody(f)
    /\ UNCHANGED << env, globals, last, history >>

\* if (!nvmlhandle) { DALI_FAIL("Failed to open libnvidia-ml.so[.1]"); }
Test2 ==
  \E f \in Running :
    /\ At(f, "test2")
    /\ IF nvmlhandle = NULL
       THEN DALI_FAIL(f, << "Failed to open libnvidia-ml.so[.1]" >>)
       ELSE /\ StartBody(f)
            /\ UNCHANGED << last, everFailed >>
    /\ UNCHANGED << env, globals, calls, passes, opens, everLoaded, overlap,
                    nullCall, crashed >>

\* LOAD_SYM: tmp = dlsym(handle, symbol);
LoadSymLookup ==
  \E f \in Running, found \in BOOLEAN :
    /\ At(f, "stmt")
    /\ Body[f.idx][1] = "LOAD_SYM"
    /\ Discloses(nvmlhandle, Body[f.idx][2], found)
    /\ Step(f, [f EXCEPT !.pc = "store",
                         !.tmp = dlsym(nvmlhandle, Body[f.idx][2], found)])
    /\ UNCHANGED << cudart, installed, globals, last, history >>

\* LoadSymStore without its DALI_FAIL: a symbol that is not found leaves its
\* pointer as it is and the pass goes on
LoadSymStoreTolerant ==
  \E f \in Running :
    /\ At(f, "store")
    /\ table' = IF f.tmp = NULL THEN table
                ELSE [table EXCEPT ![Body[f.idx][2]] = f.tmp]
    /\ NextStmt(f)
    /\ UNCHANGED << env, symbolsLoaded, nvmlhandle, calls, passes, opens,
                    everFailed, overlap, nullCall, crashed >>

\* LOAD_SYM: if (tmp == NULL) DALI_FAIL(...); *cast = tmp;
LoadSymStore ==
  \E f \in Running :
    /\ At(f, "store")
    /\ IF f.tmp = NULL
       THEN /\ DALI_FAIL(f, << "dlsym failed on", Body[f.idx][2] >>)
            /\ UNCHANGED << table, everLoaded >>
       ELSE /\ table' = [table EXCEPT ![Body[f.idx][2]] = f.tmp]
            /\ NextStmt(f)
            /\ UNCHANGED everFailed
    /\ UNCHANGED << env, symbolsLoaded, nvmlhandle, calls, passes, opens,
                    overlap, nullCall, crashed >>

\* symbolsLoaded = 1;
SetLoaded ==
  \E f \in Running :
    /\ At(f, "stmt")
    /\ Body[f.idx][1] = "symbolsLoaded = 1"
    /\ symbolsLoaded' = 1
    /\ NextStmt(f)
    /\ UNCHANGED << env, nvmlhandle, table, calls, passes, opens, everFailed,
                    overlap, nullCall, crashed >>

\* -------------------------------------------------------------- wrappers
\* FUNC_BODY without its test of the pointer
FuncIsNullUnchecked(s) == FALSE

\* FUNC_BODY: if (INTERNAL_FUNC == NULL)
FuncIsNull(s) == table[s] = NULL

\* FUNC_BODY: if (ret != NVML_SUCCESS)
NativeFailed(r) == r # NVML_SUCCESS

\* the frame of wrapper s waiting to warn about native code r
WarnFrame(s, r) == Frame(s, "warn", 0, NULL, r)

\* wrapNvml<s>(...): FUNC_BODY up to the test of the native return code.  The
\* pointer is read once; the native function touches nothing of this file.
\* A call through a null pointer is undefined: the process dies.
Wrapper(s) ==
  /\ s \in Wrappers
  /\ Enter
  /\ IF FuncIsNull(s)
     THEN /\ last' = Completed(s, DALIError, << >>, 0, TRUE)
          /\ UNCHANGED << active, nullCall, crashed >>
     ELSE IF table[s] = NULL
     THEN /\ nullCall' = TRUE /\ crashed' = TRUE
          /\ Start(Frame(s, "native", 0, NULL, "none"))
          /\ UNCHANGED last
     ELSE /\ \E r \in NativeCodes :
               IF NativeFailed(r)
               THEN Start(WarnFrame(s, r)) /\ UNCHANGED last
               ELSE /\ last' = Completed(s, DALISuccess, << >>, 1, TRUE)
                    /\ UNCHANGED active
          /\ UNCHANGED << nullCall, crashed >>
  /\ UNCHANGED << env, globals, passes, opens, everLoaded, everFailed >>

\* Warn closing the library after the warning: nvmlhandle = NULL
WarnDropsHandle ==
  \E f \in Running :
    /\ At(f, "warn")
    /\ table["nvmlErrorString"] # NULL
    /\ nvmlhandle' = NULL
    /\ Finish(f)
    /\ last' = Completed(f.op, DALIError,
                         << "warn", f.op, ErrorString(f.ret) >>, 1, FALSE)
    /\ UNCHANGED << env, symbolsLoaded, table, history >>

\* Warn marking the library as not loaded after the warning:
\* symbolsLoaded = 0
WarnResets ==
  \E f \in Running :
    /\ At(f, "warn")
    /\ table["nvmlErrorString"] # NULL
    /\ symbolsLoaded' = 0
    /\ Finish(f)
    /\ last' = Completed(f.op, DALIError,
                         << "warn", f.op, ErrorString(f.ret) >>, 1, FALSE)
    /\ UNCHANGED << env, nvmlhandle, table, history >>

\* FUNC_BODY: DALI_WARN(#INTERNAL_FUNC "(...) failed: " +
\*                      nvmlInternalErrorString(ret)); return DALIError;
\* nvmlInternalErrorString is called unchecked.  Through a null pointer the
\* call is undefined: the process dies, or goes on with whatever it got back.
Warn ==
  \E f \in Running :
    /\ At(f, "warn")
    /\ IF table["nvmlErrorString"] # NULL
       THEN /\ Finish(f)
            /\ last' = Completed(f.op, DALIError,
                                 << "warn", f.op, ErrorString(f.ret) >>, 1, FALSE)
            /\ UNCHANGED << nullCall, crashed >>
       ELSE /\ nullCall' = TRUE
            /\ \/ /\ crashed' = TRUE
                  /\ UNCHANGED << active, last >>
               \/ /\ Finish(f)
                  /\ last' = Completed(f.op, DALIError,
                                       << "warn", f.op, "garbage" >>, 1, FALSE)
                  /\ UNCHANGED crashed
    /\ UNCHANGED << env, globals, calls, passes, opens, everLoaded, everFailed,
                    overlap >>

\* wrapHasCuda11NvmlFunctions testing only the first pointer of the block
HasCuda11FirstOnly ==
  cudart >= CUDA11 /\ table["nvmlDeviceGetCpuAffinityWithinScope"] # NULL

\* the pointers wrapHasCuda11NvmlFunctions tests
Cuda11Group ==
  { "nvmlDeviceGetCount_v2", "nvmlDeviceGetHandleByIndex_v2",
    "nvmlDeviceGetCudaComputeCapability", "nvmlDeviceGetBrand" }

\* bool wrapHasCuda11NvmlFunctions()
wrapHasCuda11NvmlFunctions ==
  IF cudart >= CUDA11 THEN \A s \in Cuda11Group : table[s] # NULL ELSE FALSE

\* a call of wrapHasCuda11NvmlFunctions()
HasCuda11 ==
  /\ Enter
  /\ last' = Completed("wrapHasCuda11NvmlFunctions",
                       IF wrapHasCuda11NvmlFunctions THEN "true" ELSE "false",
                       << >>, 0, TRUE)
  /\ UNCHANGED << env, globals, active, passes, opens, everLoaded, everFailed,
                  nullCall, crashed >>

\* ----------------------------------------------------------------- Init
Init ==
  /\ cudart \in CudartVersions
  /\ installed \in SUBSET LibNames
  /\ exported = {} /\ absent = {}
  /\ symbolsLoaded = 0
  /\ nvmlhandle = NULL
  /\ table = [s \in Symbols |-> NULL]
  /\ active = EmptyBag
  /\ last = NoCall
  /\ calls = 0 /\ passes = 0 /\ opens = 0
  /\ everLoaded = FALSE /\ everFailed = FALSE /\ overlap = FALSE
  /\ nullCall = FALSE /\ crashed = FALSE

Next ==
  \/ wrapSymbols
  \/ Open1
  \/ Test1
  \/ Open2
  \/ Test2
  \/ LoadSymLookup
  \/ LoadSymStore
  \/ SetLoaded
  \/ \E s \in WrapperNames : Wrapper(s)
  \/ Warn
  \/ HasCuda11

Spec == Init /\ [][Next]_vars

\* ======================================================================
\* Properties
\* ======================================================================
AllNull == \A s \in Symbols : table[s] = NULL

\* exactly one pass was ever started and it has returned: no other call of
\* wrapSymbols was in progress with it
LoadRanAlone == passes = 1 /\ (everLoaded \/ everFailed)

LibraryNotFoundMsg == << "fail", "Failed to open libnvidia-ml.so[.1]" >>

IsWarning(d) == Len(d) = 3 /\ d[1] = "warn"

\* C1 (as claimed): whatever the order or interleaving of wrapSymbols calls, at
\* most one resolution pass (dlopen, then the LOAD_SYM lines) is ever started,
\* and the wrapSymbols calls that have returned all returned the same value.
C1_ExactlyOnePass ==
  /\ passes <= 1
  /\ ~(everLoaded /\ everFailed)

\* C2: a wrapSymbols call that finds symbolsLoaded set returns DALISuccess in
\* that step: it starts no pass, opens nothing, and leaves symbolsLoaded,
\* nvmlhandle and every function pointer as they were.
C2_ShortCircuit ==
  [][(symbolsLoaded # 0 /\ wrapSymbols)
       => /\ last' = Completed("wrapSymbols", DALISuccess, << >>, 0, TRUE)
          /\ UNCHANGED << active, symbolsLoaded, nvmlhandle, table, passes,
                          opens >>]_vars

\* a wrapSymbols call has returned DALISuccess in its first step
C2_Witness ==
  /\ symbolsLoaded = 1 /\ passes = 1
  /\ last = Completed("wrapSymbols", DALISuccess, << >>, 0, TRUE)

\* C3: once symbolsLoaded is set, no step of any thread changes the value of
\* any function pointer, even the stores of a thread that is still inside
\* its own pass.
C3_TableFrozen == [][symbolsLoaded # 0 => table' = table]_vars

\* symbolsLoaded is set and another thread is about to store a pointer
C3_Witness ==
  /\ symbolsLoaded = 1
  /\ \E f \in Running : f.pc = "store" /\ f.tmp # NULL

\* C4 (as claimed): after a wrapSymbols call that failed on a dlsym, in a run
\* where no two calls overlapped, symbolsLoaded is clear and every function
\* pointer is null.
C4_PartialStateDiscarded ==
  ( /\ ~overlap
    /\ last.op = "wrapSymbols" /\ last.result = DALIError
    /\ last.diag # LibraryNotFoundMsg )
    => symbolsLoaded = 0 /\ AllNull

\* C5 (as claimed): as long as no wrapSymbols call has returned DALISuccess,
\* no wrapper has invoked a native function or called through a null pointer;
\* stated for runs where no two calls overlapped, so that a pointer is set
\* only by a wrapSymbols call that has already failed.
C5_NoNativeBeforeLoad ==
  (~overlap /\ ~everLoaded)
    => /\ ~nullCall
       /\ last.invoked = 0
       /\ \A f \in Running : f.pc # "warn"

\* C6: when neither library name can be opened, every wrapSymbols call that
\* returns returns DALIError with the one "Failed to open" message,
\* symbolsLoaded is clear, no handle was ever obtained and every function
\* pointer is still null.
C6_LibraryNotFound ==
  installed = {}
    => /\ symbolsLoaded = 0 /\ opens = 0 /\ AllNull
       /\ last.op = "wrapSymbols"
            => last.result = DALIError /\ last.diag = LibraryNotFoundMsg

\* no library is installed and a wrapSymbols call has failed
C6_Witness ==
  /\ installed = {}
  /\ last.op = "wrapSymbols" /\ last.result = DALIError

\* C7 (as claimed): in a CUDA 11 build on a driver older than CUDA 11.0, with
\* a library that has every entry point but one of the CUDA 11 ones, a
\* wrapSymbols call that overlapped no other returns DALISuccess and leaves
\* that pointer null.
C7_GatedSymbolSkipped ==
  \A s \in Range(Cuda11Symbols), dv \in DriverVersions :
    ( /\ cudart >= CUDA11 /\ ~is_driver_sufficient(dv, 11, 0)
      /\ installed # {} /\ absent = {s}
      /\ ~overlap /\ last.op = "wrapSymbols" )
      => last.result = DALISuccess /\ table[s] = NULL

\* the library of the scenario: it can be opened, nvmlInit was found in it
\* and nvmlDeviceGetBrand was not
BrandlessLibrary ==
  /\ installed # {}
  /\ "nvmlInit" \in exported
  /\ "nvmlDeviceGetBrand" \notin exported

C9_FailureIsFinal ==
  [][everFailed
       => /\ passes' = passes
          /\ wrapSymbols
               => last'.op = "wrapSymbols" /\ last'.result = DALIError]_vars

\* C10 (as claimed): no wrapper ever calls through a null
\* nvmlInternalErrorString; a warning made while it is null carries the
\* string "unknown error".  Stated for runs where no two calls overlapped, so
\* that the pointer is null only before or after a failed wrapSymbols.
C10_ErrorStringFallback ==
  ~overlap
    => /\ ~nullCall
       /\ IsWarning(last.diag)
            => last.diag[3] \in {ErrorString(r) : r \in NativeCodes}
                                  \cup {"unknown error"}

\* C11 (as claimed): in a run where no two calls overlapped, at most one
\* dlopen ever returns a handle, and no step overwrites a handle that
\* nvmlhandle holds.
C11_HandleCreatedOnce ==
  [][~overlap'
       => /\ opens' <= 1
          /\ nvmlhandle # NULL => nvmlhandle' = nvmlhandle]_vars

\* C12: wrapHasCuda11NvmlFunctions() returns true exactly when the four
\* pointers it names are all non-null; while they are, they stay so, and no
\* wrapper of a CUDA 11 entry point takes the null-pointer return: it calls
\* its native function.
C12_CapabilityQuery ==
  [][/\ HasCuda11
          => (last'.result = "true"
                <=> \A s \in Cuda11Group : table[s] # NULL)
     /\ (\A s \in Cuda11Group : table[s] # NULL)
          => /\ \A s \in Cuda11Group : table'[s] # NULL
             /\ \A s \in Range(Cuda11Symbols) :
                  Wrapper(s)
                    => \/ last' = Completed(s, DALISuccess, << >>, 1, TRUE)
                       \/ \E r \in NativeCodes \ {NVML_SUCCESS} :
                            active' = active (+) SetToBag({WarnFrame(s, r)})
    ]_vars

\* wrapHasCuda11NvmlFunctions() has returned true
C12_Witness ==
  last = Completed("wrapHasCuda11NvmlFunctions", "true", << >>, 0, TRUE)

\* every pointer the build resolves is set
FullyLoaded == \A s \in Range(LoadList) : table[s] # NULL

\* a wrapSymbols call is inside its pass
PassInProgress == \E f \in Running : f.op = "wrapSymbols"

\* C13 (as claimed): a call that starts while another thread is inside its
\* pass finds the pointers either all null or all set.
C13_NoTornTable ==
  [][(calls' = calls + 1 /\ PassInProgress) => (AllNull \/ FullyLoaded)]_vars

\* C14: whenever symbolsLoaded is set, every pointer the build resolves,
\* nvmlInternalErrorString included, is non-null; and once a wrapSymbols call
\* has returned DALISuccess, symbolsLoaded is set.
C14_LoadedImpliesResolved ==
  /\ symbolsLoaded # 0 => FullyLoaded
  /\ everLoaded => symbolsLoaded # 0

\* a pass of a CUDA 11 build has set symbolsLoaded and returned DALISuccess
C14_Witness ==
  /\ cudart >= CUDA11 /\ symbolsLoaded = 1
  /\ last = Completed("wrapSymbols", DALISuccess, << >>, 0, FALSE)

\* C15 (as claimed): a pass tries libnvidia-ml.so.1 only after its dlopen of
\* libnvidia-ml.so failed, reaches the LOAD_SYM lines only when some name
\* could be opened, and a wrapSymbols call fails with "Failed to open" only
\* when neither name can be opened.
C15_CandidateOrder ==
  /\ \A f \in Running :
       /\ f.pc \in {"open2", "test2"} => dlopen(LibPrimary) = NULL
       /\ f.pc \in {"stmt", "store"}
            => dlopen(LibPrimary) # NULL \/ dlopen(LibFallback) # NULL
  /\ last.diag = LibraryNotFoundMsg
       => dlopen(LibPrimary) = NULL /\ dlopen(LibFallback) = NULL

\* C16 (as claimed): in a run where no two calls overlapped, a wrapper whose
\* pointer is null returns DALIError in one step with no native call and no
\* diagnostic; otherwise it calls its native function once and returns
\* DALISuccess on NVML_SUCCESS, and on any other code it returns DALIError
\* with one warning.
C16_SingleAttempt ==
  [][~overlap'
       => /\ \A s \in WrapperNames :
               Wrapper(s)
                 => IF table[s] = NULL
                    THEN /\ last' = Completed(s, DALIError, << >>, 0, TRUE)
                         /\ UNCHANGED << active, nullCall, crashed >>
                    ELSE \/ /\ last' = Completed(s, DALISuccess, << >>, 1, TRUE)
                            /\ UNCHANGED active
                         \/ \E r \in NativeCodes \ {NVML_SUCCESS} :
                              /\ active' = active (+) SetToBag({WarnFrame(s, r)})
                              /\ UNCHANGED last
          /\ Warn
               => /\ UNCHANGED << nullCall, crashed >>
                  /\ \E f \in Running :
                       /\ active' = active (-) SetToBag({f})
                       /\ last'.op = f.op /\ last'.result = DALIError
                       /\ last'.invoked = 1 /\ IsWarning(last'.diag)]_vars

\* C17: in a CUDA 11 build on a driver of CUDA 11.0 or later, once dlsym has
\* found the library to lack one of the CUDA 11 entry points, symbolsLoaded
\* is clear, no wrapSymbols call has returned or returns DALISuccess; and in
\* any build a wrapSymbols call has returned DALISuccess only with every
\* pointer of the build non-null.
C17_MissingOptionalIsFatal ==
  /\ \A s \in Range(Cuda11Symbols), dv \in DriverVersions :
       (cudart >= CUDA11 /\ is_driver_sufficient(dv, 11, 0) /\ s \in absent)
         => /\ symbolsLoaded = 0 /\ ~everLoaded
            /\ last.op = "wrapSymbols" => last.result = DALIError
  /\ everLoaded
       => \A s \in Range(BaseSymbols) \cup
                    (IF cudart >= CUDA11 THEN Range(Cuda11Symbols) ELSE {}) :
            table[s] # NULL

\* a wrapSymbols call that overlapped no other has failed on a CUDA 11 entry
\* point the library lacks
C17_Witness ==
  \E s \in Range(Cuda11Symbols) :
    /\ cudart >= CUDA11 /\ is_driver_sufficient(CUDA11, 11, 0)
    /\ absent = {s} /\ ~overlap
    /\ last = Completed("wrapSymbols", DALIError,
                        << "fail", "dlsym failed on", s >>, 0, FALSE)

\* C18: whenever symbolsLoaded is set, the pointers of the CUDA 11 entry
\* points are all non-null or all null, and if
\* wrapHasCuda11NvmlFunctions() is false they are all null: no CUDA 11
\* wrapper would call a native function.
C18_GroupAllOrNothing ==
  symbolsLoaded # 0
    => /\ \/ \A s \in Range(Cuda11Symbols) : table[s] # NULL
          \/ \A s \in Range(Cuda11Symbols) : table[s] = NULL
       /\ ~wrapHasCuda11NvmlFunctions
            => \A s \in Range(Cuda11Symbols) : table[s] = NULL

\* symbolsLoaded is set in a CUDA 11 build and wrapHasCuda11NvmlFunctions()
\* has been called
C18_Witness ==
  /\ symbolsLoaded = 1 /\ cudart >= CUDA11
  /\ last.op = "wrapHasCuda11NvmlFunctions"

\* C19: no step of a wrapper (the null return, the native call, the warning)
\* and no wrapHasCuda11NvmlFunctions() call changes symbolsLoaded, nvmlhandle
\* or a function pointer; so a wrapper's failure leaves a later wrapSymbols
\* what it would have been.
C19_WrappersLeaveLoader ==
  [][((\E s \in WrapperNames : Wrapper(s)) \/ Warn \/ HasCuda11)
       => UNCHANGED << symbolsLoaded, nvmlhandle, table >>]_vars

\* after a load, a wrapper's native call has failed and the wrapper has
\* returned DALIError with its warning
C19_Witness ==
  /\ symbolsLoaded = 1 /\ nvmlhandle # NULL
  /\ last.result = DALIError /\ last.invoked = 1 /\ IsWarning(last.diag)

\* C20: symbolsLoaded starts at 0; once it is set no step clears it, and
\* every wrapSymbols call made from then on returns DALISuccess.
C20_LoadStateMonotonic ==
  /\ symbolsLoaded = 0
  /\ [][symbolsLoaded # 0
          => /\ symbolsLoaded' # 0
             /\ wrapSymbols
                  => last'.op = "wrapSymbols" /\ last'.result = DALISuccess
        ]_vars

\* two passes raced; one set symbolsLoaded, and the other has returned after it
C20_Witness ==
  /\ symbolsLoaded = 1 /\ passes = 2 /\ active = EmptyBag
  /\ last = Completed("wrapSymbols", DALISuccess, << >>, 0, FALSE)

====
